---------------------------- MODULE Spec2Model ----------------------------
(***************************************************************************)
(* Model of the expense-tracker data scripts:                              *)
(*   src/data/audit_analyzer.py       (class FinancialAuditor)             *)
(*   src/data/analyze_transactions.py (the report script)                  *)
(*                                                                         *)
(* Money is an exact decimal in the source (decimal.Decimal); here it is   *)
(* an integer number of cents, so 0.01 is 1 and 500 is 50000.              *)
(* Text is a TLA+ string; Len, SubSeq and \o act on it character-wise.     *)
(***************************************************************************)
EXTENDS Integers, Sequences, FiniteSets, TLC

VARIABLES
    \* --- the classifier on its own ---
    c_desc,       \* classifier input: a description
    c_alt,        \* the same description in another letter case
    c_type,       \* classifier input: txn_type
    merchant,     \* <<extract_merchant(c_desc), extract_merchant(c_alt)>>, <<>> before the call
    category,     \* <<categorize_transaction(..c_desc..), (..c_alt..)>>
    source,       \* income-source label of c_desc and c_alt (analyze_transactions)
    recurring,    \* recurring-merchant label of c_desc and c_alt (analyze_transactions)
    \* --- a run of one of the two programs over a CSV file ---
    prog,         \* "analyze" (analyze_transactions.py) or "audit" (run_full_audit)
    rows,         \* the rows csv.DictReader yields, in file order
    pc,           \* the stage about to run
    next_row,            \* the next row of the loading loop
    outcome,      \* "running", "ok", or the exception that ended the run
    errors,       \* analyze: the "Error parsing transaction" reports, in order
    parsed_transactions,   \* analyze: parsed_transactions
    first_txn,    \* analyze: first_txn (a one-element sequence once assigned)
    last_txn,     \* analyze: last_txn
    transactions, \* audit: self.transactions
    credits,      \* audit: self.credits
    debits,       \* audit: self.debits
    daily_flow,   \* audit: self.daily_flow, value_date -> the txn_ids of that date
    monthly_data,       \* analyze: monthly_data, month -> its rollup
    income_sources,     \* analyze: income_sources, source -> count, total, average
    merchant_patterns,  \* analyze: merchant_patterns, merchant -> count, total_debit, average
    day_ranges,         \* analyze: per day range its range_debits, range_count, average
    anomalies,          \* analyze: the balance anomalies of section 7
    insights,           \* analyze: the totals of section 8
    summary,            \* audit: what generate_summary_statistics returns
    verification_issues, \* audit: what verify_balances returns
    patterns,           \* audit: what analyze_patterns returns
    detected,           \* audit: what detect_anomalies returns
    all_transactions    \* audit: results['all_transactions']

classifyVars == <<c_desc, c_alt, c_type, merchant, category, source, recurring>>

loadVars == <<prog, rows, pc, next_row, outcome, errors, parsed_transactions, first_txn, last_txn,
              transactions, credits, debits, daily_flow>>

analyzeVars == <<monthly_data, income_sources, merchant_patterns, day_ranges, anomalies,
                 insights>>

auditVars == <<summary, verification_issues, patterns, detected, all_transactions>>

vars == <<classifyVars, loadVars, analyzeVars, auditVars>>

(***************************************************************************)
(* Text: str.upper(), str.lower() and the substring test `p in s`.         *)
(***************************************************************************)
LowerLetters == "abcdefghijklmnopqrstuvwxyz"
UpperLetters == "ABCDEFGHIJKLMNOPQRSTUVWXYZ"

MapChar(c, from, to) ==
    IF \E i \in 1..Len(from) : SubSeq(from, i, i) = c
    THEN LET i == CHOOSE j \in 1..Len(from) : SubSeq(from, j, j) = c
         IN  SubSeq(to, i, i)
    ELSE c

RECURSIVE upper(_)
upper(s) ==
    IF s = "" THEN ""
    ELSE MapChar(SubSeq(s, 1, 1), LowerLetters, UpperLetters) \o upper(SubSeq(s, 2, Len(s)))

RECURSIVE lower(_)
lower(s) ==
    IF s = "" THEN ""
    ELSE MapChar(SubSeq(s, 1, 1), UpperLetters, LowerLetters) \o lower(SubSeq(s, 2, Len(s)))

\* Python's `pat in s` on strings.
Contains(pat, s) ==
    \E i \in 1..(Len(s) - Len(pat) + 1) : SubSeq(s, i, i + Len(pat) - 1) = pat

\* any(x in desc for x in pats)
ContainsAny(pats, s) == \E p \in pats : Contains(p, s)

(***************************************************************************)
(* FinancialAuditor.extract_merchant: the if/elif chain, in source order.  *)
(***************************************************************************)
\* The chain with its SWIGGY and AMAZON branches in the opposite order.
extract_merchant_swapped(description) ==
    LET desc == upper(description) IN
    IF Contains("POONAM M", desc) THEN "POONAM M"
    ELSE IF Contains("AGI READ", desc) THEN "AGI READ"
    ELSE IF Contains("MOHIT S", desc) THEN "MOHIT S"
    ELSE IF Contains("JASVIN T", desc) THEN "JASVIN T"
    ELSE IF Contains("CHHAVI", desc) THEN "CHHAVI"
    ELSE IF Contains("GOOGLE", desc) THEN "GOOGLE"
    ELSE IF Contains("AARYAN", desc) THEN "AARYAN"
    ELSE IF Contains("ZEPTO", desc) THEN "ZEPTO"
    ELSE IF Contains("AMAZON", desc) THEN "AMAZON"
    ELSE IF Contains("SWIGGY", desc) THEN "SWIGGY"
    ELSE IF Contains("DOMINO", desc) THEN "DOMINOS"
    ELSE IF Contains("THAPAR", desc) THEN "THAPAR INSTITUTE"
    ELSE IF Contains("GROWW", desc) \/ Contains("MUTUAL F", desc) THEN "GROWW/INVESTMENTS"
    ELSE IF Contains("AIRTEL", desc) THEN "AIRTEL"
    ELSE IF Contains("APPLE", desc) THEN "APPLE"
    ELSE IF Contains("NETFLIX", desc) THEN "NETFLIX"
    ELSE IF Contains("WRAP CHIP", desc) THEN "WRAP CHIP"
    ELSE IF Contains("HUNGERBOX", desc) \/ Contains("HUNGER BO X", desc) THEN "HUNGERBOX"
    ELSE IF Contains("BLINKIT", desc) THEN "BLINKIT"
    ELSE IF Contains("ZUDIO", desc) THEN "ZUDIO"
    ELSE IF Contains("MCDONALDS", desc) \/ Contains("MCDONALD", desc) THEN "MCDONALDS"
    ELSE IF Contains("GOIBIBO", desc) THEN "GOIBIBO"
    ELSE IF Contains("REBEL", desc) THEN "REBEL MARKET"
    ELSE IF Contains("MONU", desc) THEN "MONU"
    ELSE IF Contains("RAMESH", desc) THEN "RAMESH K"
    ELSE IF Contains("BINDER", desc) THEN "BINDER"
    ELSE IF Contains("ISHAN", desc) THEN "ISHAN VOHRA"
    ELSE IF Contains("AMIT", desc) THEN "AMIT KU"
    ELSE IF Contains("SHASHWAT", desc) THEN "SHASHWAT"
    ELSE IF Contains("JATINDER", desc) THEN "JATINDER"
    ELSE IF Contains("PUNIT", desc) THEN "PUNIT PA"
    ELSE IF Contains("UNIQUE", desc) THEN "UNIQUE S"
    ELSE IF Contains("GROWSY", desc) THEN "GROWSY"
    ELSE IF Contains("BESTIN", desc) THEN "BESTIN"
    ELSE IF Contains("SKY", desc) THEN "M/S.SKY"
    ELSE "OTHER"

extract_merchant(description) ==
    LET desc == upper(description) IN
    IF Contains("POONAM M", desc) THEN "POONAM M"
    ELSE IF Contains("AGI READ", desc) THEN "AGI READ"
    ELSE IF Contains("MOHIT S", desc) THEN "MOHIT S"
    ELSE IF Contains("JASVIN T", desc) THEN "JASVIN T"
    ELSE IF Contains("CHHAVI", desc) THEN "CHHAVI"
    ELSE IF Contains("GOOGLE", desc) THEN "GOOGLE"
    ELSE IF Contains("AARYAN", desc) THEN "AARYAN"
    ELSE IF Contains("ZEPTO", desc) THEN "ZEPTO"
    ELSE IF Contains("SWIGGY", desc) THEN "SWIGGY"
    ELSE IF Contains("AMAZON", desc) THEN "AMAZON"
    ELSE IF Contains("DOMINO", desc) THEN "DOMINOS"
    ELSE IF Contains("THAPAR", desc) THEN "THAPAR INSTITUTE"
    ELSE IF Contains("GROWW", desc) \/ Contains("MUTUAL F", desc) THEN "GROWW/INVESTMENTS"
    ELSE IF Contains("AIRTEL", desc) THEN "AIRTEL"
    ELSE IF Contains("APPLE", desc) THEN "APPLE"
    ELSE IF Contains("NETFLIX", desc) THEN "NETFLIX"
    ELSE IF Contains("WRAP CHIP", desc) THEN "WRAP CHIP"
    ELSE IF Contains("HUNGERBOX", desc) \/ Contains("HUNGER BO X", desc) THEN "HUNGERBOX"
    ELSE IF Contains("BLINKIT", desc) THEN "BLINKIT"
    ELSE IF Contains("ZUDIO", desc) THEN "ZUDIO"
    ELSE IF Contains("MCDONALDS", desc) \/ Contains("MCDONALD", desc) THEN "MCDONALDS"
    ELSE IF Contains("GOIBIBO", desc) THEN "GOIBIBO"
    ELSE IF Contains("REBEL", desc) THEN "REBEL MARKET"
    ELSE IF Contains("MONU", desc) THEN "MONU"
    ELSE IF Contains("RAMESH", desc) THEN "RAMESH K"
    ELSE IF Contains("BINDER", desc) THEN "BINDER"
    ELSE IF Contains("ISHAN", desc) THEN "ISHAN VOHRA"
    ELSE IF Contains("AMIT", desc) THEN "AMIT KU"
    ELSE IF Contains("SHASHWAT", desc) THEN "SHASHWAT"
    ELSE IF Contains("JATINDER", desc) THEN "JATINDER"
    ELSE IF Contains("PUNIT", desc) THEN "PUNIT PA"
    ELSE IF Contains("UNIQUE", desc) THEN "UNIQUE S"
    ELSE IF Contains("GROWSY", desc) THEN "GROWSY"
    ELSE IF Contains("BESTIN", desc) THEN "BESTIN"
    ELSE IF Contains("SKY", desc) THEN "M/S.SKY"
    ELSE "OTHER"

(***************************************************************************)
(* FinancialAuditor.categorize_transaction(txn), txn given by its          *)
(* description and txn_type.                                               *)
(***************************************************************************)
\* The credit branch (lines 141-152) without its `'AMAZON' in desc` test.
categorize_credit_no_refund(desc) ==
    LET m == extract_merchant(desc) IN
    IF m \in {"POONAM M", "MOHIT S", "AGI READ"} THEN "Income - Family"
    ELSE IF m \in {"JASVIN T", "AARYAN", "CHHAVI"} THEN "Income - Friends/Peer Transfer"
    ELSE IF m = "GOOGLE" THEN "Income - Rewards"
    ELSE "Income - Other"

\* Income categorization: desc is already upper-cased by the caller.
categorize_credit(desc) ==
    LET m == extract_merchant(desc) IN
    IF m \in {"POONAM M", "MOHIT S", "AGI READ"} THEN "Income - Family"
    ELSE IF m \in {"JASVIN T", "AARYAN", "CHHAVI"} THEN "Income - Friends/Peer Transfer"
    ELSE IF m = "GOOGLE" THEN "Income - Rewards"
    ELSE IF Contains("AMAZON", desc) THEN "Income - Refund"
    ELSE "Income - Other"

\* Expense categorization.
categorize_debit(desc) ==
    IF Contains("THAPAR", desc) THEN "Education"
    ELSE IF ContainsAny({"ZEPTO", "BLINKIT"}, desc) THEN "Groceries"
    ELSE IF ContainsAny({"SWIGGY", "DOMINO", "MCDONALDS", "HUNGERBOX", "WRAP CHIP"}, desc)
         THEN "Food & Dining"
    ELSE IF ContainsAny({"GROWW", "MUTUAL F"}, desc) THEN "Investments"
    ELSE IF ContainsAny({"AMAZON", "ZUDIO"}, desc) THEN "Shopping"
    ELSE IF ContainsAny({"AIRTEL", "NETFLIX", "APPLE"}, desc) THEN "Subscriptions & Utilities"
    ELSE IF Contains("GOIBIBO", desc) THEN "Travel"
    ELSE IF ContainsAny({"MONU", "RAMESH", "BINDER", "ISHAN", "AMIT", "SHASHWAT",
                         "JATINDER", "PUNIT"}, desc) THEN "Peer Transfers"
    ELSE IF ContainsAny({"REBEL", "UNIQUE", "GROWSY", "BESTIN", "SKY"}, desc)
         THEN "Shopping - Local"
    ELSE "Other"

categorize_transaction(description, txn_type) ==
    LET desc == upper(description) IN
    IF txn_type = "credit" THEN categorize_credit(desc) ELSE categorize_debit(desc)

(***************************************************************************)
(* analyze_transactions: the income-source chain (section 3) tests the     *)
(* description as given; the recurring-merchant chain (section 5) tests    *)
(* desc.upper().                                                           *)
(***************************************************************************)
income_source(desc) ==
    IF Contains("POONAM M", desc) THEN "POONAM M (UPI)"
    ELSE IF Contains("JASVIN T", desc) THEN "JASVIN T (UPI)"
    ELSE IF Contains("MOHIT S", desc) THEN "MOHIT S (UPI)"
    ELSE IF Contains("AGI READ", desc) THEN "AGI READ (UPI)"
    ELSE IF Contains("Amazon", desc) THEN "Amazon (Refund)"
    ELSE IF Contains("GOOGLE", desc) THEN "Google (Refund)"
    ELSE IF Contains("APPLE", desc) THEN "Apple (Refund)"
    ELSE IF Contains("NEFT", desc) THEN "NEFT Transfer"
    ELSE IF Contains("IMPS", desc) THEN "IMPS Transfer"
    ELSE IF Contains("AARYAN", desc) THEN "AARYAN (UPI)"
    ELSE IF Contains("CHHAVI", desc) THEN "CHHAVI (UPI)"
    ELSE "Other"

\* The label of a debit's description, or NoMerchant where the loop body
\* takes `continue`.
NoMerchant == ""

recurring_merchant(desc) ==
    IF Contains("ZEPTO", upper(desc)) THEN "Zepto (Grocery)"
    ELSE IF Contains("SWIGGY", upper(desc)) THEN "Swiggy (Food Delivery)"
    ELSE IF Contains("AMAZON", upper(desc)) THEN "Amazon"
    ELSE IF Contains("THAPAR", upper(desc)) THEN "Thapar Institute"
    ELSE IF Contains("GROWW", upper(desc)) THEN "Groww (Investment)"
    ELSE IF Contains("NETFLIX", upper(desc)) THEN "Netflix"
    ELSE IF Contains("DOMINOS", upper(desc)) THEN "Dominos"
    ELSE IF Contains("MCDONALD", upper(desc)) THEN "McDonalds"
    ELSE IF Contains("WRAP CHIP", upper(desc)) THEN "Wrap Chip (Restaurant)"
    ELSE IF Contains("HUNGERBOX", upper(desc)) THEN "HungerBox (Food)"
    ELSE IF Contains("APPLE", upper(desc)) THEN "Apple Services"
    ELSE IF Contains("AIRTEL", upper(desc)) THEN "Airtel (Telecom)"
    ELSE IF Contains("ZUDIO", upper(desc)) THEN "Zudio (Clothing)"
    ELSE IF Contains("GOIBIBO", upper(desc)) THEN "Goibibo (Travel)"
    ELSE IF Contains("BLINKIT", upper(desc)) THEN "Blinkit (Quick Commerce)"
    ELSE NoMerchant

(***************************************************************************)
(* Input text.  A value_date is the text "a/b/y" (fmt "slash") or text in  *)
(* no slash layout (fmt "other").  An amount field is a decimal numeral    *)
(* (kind "num", val in cents), the empty string, or non-numeric text.      *)
(***************************************************************************)
DateText(a, b, y) == [fmt |-> "slash", a |-> a, b |-> b, y |-> y]
OtherText == [fmt |-> "other", a |-> 0, b |-> 0, y |-> 0]

Num(cents) == [kind |-> "num", val |-> cents]
Empty == [kind |-> "empty", val |-> 0]
NonNumeric == [kind |-> "bad", val |-> 0]

(***************************************************************************)
(* datetime: strptime with a layout, toordinal, strftime('%Y-%m').         *)
(***************************************************************************)
IsLeap(y) == (y % 4 = 0) /\ ((y % 100 # 0) \/ (y % 400 = 0))

DaysInMonth(y, m) ==
    IF m = 2 THEN (IF IsLeap(y) THEN 29 ELSE 28)
    ELSE IF m \in {4, 6, 9, 11} THEN 30 ELSE 31

ValidDate(y, m, d) == y \in 1..9999 /\ m \in 1..12 /\ d \in 1..DaysInMonth(y, m)

\* strptime(text, '%d/%m/%Y') succeeds / its value
DayFirstOk(t) == t.fmt = "slash" /\ ValidDate(t.y, t.b, t.a)
DayFirst(t) == [y |-> t.y, m |-> t.b, d |-> t.a]

\* strptime(text, '%m/%d/%Y') succeeds / its value
MonthFirstOk(t) == t.fmt = "slash" /\ ValidDate(t.y, t.a, t.b)
MonthFirst(t) == [y |-> t.y, m |-> t.a, d |-> t.b]

RECURSIVE DaysBeforeMonth(_, _)
DaysBeforeMonth(y, m) ==
    IF m = 1 THEN 0 ELSE DaysBeforeMonth(y, m - 1) + DaysInMonth(y, m - 1)

\* date.toordinal(): the order of dates, and the unit of (max - min).days
toordinal(dt) ==
    LET y1 == dt.y - 1 IN
    y1 * 365 + (y1 \div 4) - (y1 \div 100) + (y1 \div 400) + DaysBeforeMonth(dt.y, dt.m) + dt.d

\* value_date.strftime('%Y-%m'), as the number yyyymm (same order as the text)
YearMonth(dt) == dt.y * 100 + dt.m

(***************************************************************************)
(* analyze_transactions.py, lines 15-45: parse each row, skip and report   *)
(* the rows that raise, then sort by date.                                 *)
(***************************************************************************)
\* Decimal(text) raises decimal.InvalidOperation
DecimalRaises(field) == field.kind # "num"

\* Decimal(x) if x else Decimal('0')
DecimalOrZeroRaises(field) == field.kind = "bad"
DecimalOrZero(field) == IF field.kind = "num" THEN field.val ELSE 0

\* The exception the try block raises on a row, "" when it raises none.
ParseException(row) ==
    IF ~DayFirstOk(row.value_date) /\ ~MonthFirstOk(row.value_date) THEN "ValueError"
    ELSE IF DecimalOrZeroRaises(row.debit) THEN "InvalidOperation"
    ELSE IF DecimalOrZeroRaises(row.credit) THEN "InvalidOperation"
    ELSE IF DecimalRaises(row.balance) THEN "InvalidOperation"
    ELSE ""

ParsedRecord(row) ==
    LET value_date == IF DayFirstOk(row.value_date) THEN DayFirst(row.value_date)
                      ELSE MonthFirst(row.value_date)
    IN  [txn_id |-> row.txn_id,
         date |-> value_date,
         description |-> row.description,
         debit |-> DecimalOrZero(row.debit),
         credit |-> DecimalOrZero(row.credit),
         balance |-> row.balance.val,
         txn_type |-> row.txn_type,
         month |-> YearMonth(value_date),
         day |-> value_date.d]

\* One iteration of `for txn in transactions` (lines 17-42).
ParseRow ==
    /\ prog = "analyze" /\ outcome = "running" /\ pc = "parse"
    /\ next_row <= Len(rows)
    /\ LET exc == ParseException(rows[next_row]) IN
       IF exc = ""
       THEN /\ parsed_transactions' = Append(parsed_transactions, ParsedRecord(rows[next_row]))
            /\ UNCHANGED errors
       ELSE /\ errors' = Append(errors, [txn_id |-> rows[next_row].txn_id, e |-> exc])
            /\ UNCHANGED parsed_transactions
    /\ next_row' = next_row + 1
    /\ UNCHANGED <<classifyVars, analyzeVars, auditVars, prog, rows, pc, outcome, first_txn, last_txn,
                   transactions, credits, debits, daily_flow>>

\* list.sort(key=...) is stable: an element goes after the elements already
\* placed whose key is not greater.
RECURSIVE sort_by_date(_)
sort_by_date(txns) ==
    IF txns = <<>> THEN <<>>
    ELSE LET n == Len(txns)
             front == sort_by_date(SubSeq(txns, 1, n - 1))
             x == txns[n]
             k == Cardinality({j \in 1..(n - 1) : toordinal(front[j].date) <= toordinal(x.date)})
         IN  SubSeq(front, 1, k) \o <<x>> \o SubSeq(front, k + 1, n - 1)

\* parsed_transactions.sort(key=lambda x: x['date'])  (line 45)
SortByDate ==
    /\ prog = "analyze" /\ outcome = "running" /\ pc = "parse"
    /\ next_row > Len(rows)
    /\ parsed_transactions' = sort_by_date(parsed_transactions)
    /\ pc' = "progression"
    /\ UNCHANGED <<classifyVars, analyzeVars, auditVars, prog, rows, next_row, outcome, errors, first_txn, last_txn,
                   transactions, credits, debits, daily_flow>>

\* first_txn = parsed_transactions[0]; last_txn = parsed_transactions[-1]  (lines 55-56)
BalanceProgression ==
    /\ prog = "analyze" /\ outcome = "running" /\ pc = "progression"
    /\ IF parsed_transactions = <<>>
       THEN /\ outcome' = "IndexError"
            /\ UNCHANGED <<pc, first_txn, last_txn>>
       ELSE /\ first_txn' = <<parsed_transactions[1]>>
            /\ last_txn' = <<parsed_transactions[Len(parsed_transactions)]>>
            /\ pc' = "monthly"
            /\ UNCHANGED outcome
    /\ UNCHANGED <<classifyVars, analyzeVars, auditVars, prog, rows, next_row, errors, parsed_transactions,
                   transactions, credits, debits, daily_flow>>

(***************************************************************************)
(* analyze_transactions.py, sections 2-8 of the report.                    *)
(***************************************************************************)
\* An exact quotient num / den, kept unevaluated; the guarded zero is 0 / 1.
Ratio(n, d) == [num |-> n, den |-> d]
Zero == Ratio(0, 1)

RECURSIVE SumDebit(_)
SumDebit(txns) == IF txns = <<>> THEN 0 ELSE Head(txns).debit + SumDebit(Tail(txns))

RECURSIVE SumCredit(_)
SumCredit(txns) == IF txns = <<>> THEN 0 ELSE Head(txns).credit + SumCredit(Tail(txns))

Abs(x) == IF x < 0 THEN -x ELSE x

\* first_txn['balance'] + first_txn['debit'] - first_txn['credit']  (line 92)
ImpliedOpening(txn) == txn.balance + txn.debit - txn.credit

\* The growth rate computed with no test of opening.
growth_rate_unguarded(net_change, opening) == Ratio(net_change * 100, opening)

\* (net_change / opening * 100) if opening != 0 else 0  (line 100)
growth_rate(net_change, opening) ==
    IF opening # 0 THEN Ratio(net_change * 100, opening) ELSE Zero

\* The month's opening balance taken with the signs of debit and credit exchanged.
month_opening_flipped(txns) == txns[1].balance - txns[1].debit + txns[1].credit

\* lines 91-92, txns being the month's transactions sorted by date
month_opening(txns) == ImpliedOpening(txns[1])

\* line 93
month_closing(txns) == txns[Len(txns)].balance

Months == {parsed_transactions[n].month : n \in 1..Len(parsed_transactions)}

MonthRollup(month) ==
    LET appended == SelectSeq(parsed_transactions, LAMBDA t : t.month = month)
        txns == sort_by_date(appended)
        opening == month_opening(txns)
        closing == month_closing(txns)
    IN  [transactions |-> appended,
         total_credits |-> SumCredit(appended),
         total_debits |-> SumDebit(appended),
         opening_balance |-> opening,
         closing_balance |-> closing,
         net_change |-> closing - opening,
         growth_rate |-> growth_rate(closing - opening, opening)]

\* Section 2 (lines 73-109).  The second loop leaves first_txn bound to the
\* first transaction of the last month.
MonthlyBreakdown ==
    /\ prog = "analyze" /\ outcome = "running" /\ pc = "monthly"
    /\ LET data == [month \in Months |-> MonthRollup(month)]
           last_month == CHOOSE m \in Months : \A o \in Months : o <= m
       IN  IF \E m \in Months : data[m].growth_rate.den = 0
           THEN /\ outcome' = "DivisionByZero"
                /\ UNCHANGED <<pc, monthly_data, first_txn>>
           ELSE /\ monthly_data' = data
                /\ first_txn' = <<sort_by_date(data[last_month].transactions)[1]>>
                /\ pc' = "income"
                /\ UNCHANGED outcome
    /\ UNCHANGED <<classifyVars, auditVars, prog, rows, next_row, errors, parsed_transactions, last_txn,
                   transactions, credits, debits, daily_flow,
                   income_sources, merchant_patterns, day_ranges, anomalies, insights>>

\* Section 3 (lines 115-155): credits grouped by income source.
IncomeAnalysis ==
    /\ prog = "analyze" /\ outcome = "running" /\ pc = "income"
    /\ LET incoming == SelectSeq(parsed_transactions, LAMBDA t : t.credit > 0)
           sources == {income_source(incoming[n].description) : n \in 1..Len(incoming)}
           data == [s \in sources |->
                      LET txns == SelectSeq(incoming, LAMBDA t : income_source(t.description) = s)
                      IN  [count |-> Len(txns),
                           total |-> SumCredit(txns),
                           average |-> Ratio(SumCredit(txns), Len(txns))]]
       IN  IF \E s \in sources : data[s].average.den = 0
           THEN outcome' = "DivisionByZero" /\ UNCHANGED <<pc, income_sources>>
           ELSE income_sources' = data /\ pc' = "recurring" /\ UNCHANGED outcome
    /\ UNCHANGED <<classifyVars, auditVars, prog, rows, next_row, errors, parsed_transactions,
                   first_txn, last_txn, transactions, credits, debits, daily_flow,
                   monthly_data, merchant_patterns, day_ranges, anomalies, insights>>

\* data['count'] >= 3  (line 217)
RecurringMinimum == 3

\* Section 5 (lines 172-221): debits grouped by recurring merchant; the
\* average is computed for the merchants with 3 or more transactions.
RecurringTransactions ==
    /\ prog = "analyze" /\ outcome = "running" /\ pc = "recurring"
    /\ LET labelled == SelectSeq(parsed_transactions,
                                 LAMBDA t : t.debit > 0
                                            /\ recurring_merchant(t.description) # NoMerchant)
           merchants == {recurring_merchant(labelled[n].description) : n \in 1..Len(labelled)}
           data == [m \in merchants |->
                      LET txns == SelectSeq(labelled,
                                            LAMBDA t : recurring_merchant(t.description) = m)
                      IN  [count |-> Len(txns),
                           total_debit |-> SumDebit(txns),
                           average |-> IF Len(txns) >= RecurringMinimum
                                       THEN <<Ratio(SumDebit(txns), Len(txns))>> ELSE <<>>]]
       IN  IF \E m \in merchants : data[m].average # <<>> /\ data[m].average[1].den = 0
           THEN outcome' = "DivisionByZero" /\ UNCHANGED <<pc, merchant_patterns>>
           ELSE merchant_patterns' = data /\ pc' = "daily" /\ UNCHANGED outcome
    /\ UNCHANGED <<classifyVars, auditVars, prog, rows, next_row, errors, parsed_transactions,
                   first_txn, last_txn, transactions, credits, debits, daily_flow,
                   monthly_data, income_sources, day_ranges, anomalies, insights>>

\* Day ranges whose last one stops at the 30th.
DayRanges_to_30 == << <<1, 10>>, <<11, 20>>, <<21, 30>> >>

\* day_ranges (lines 227-231), in dict order
DayRanges == << <<1, 10>>, <<11, 20>>, <<21, 31>> >>

\* Section 6 (lines 233-240).
DailySpendingPattern ==
    /\ prog = "analyze" /\ outcome = "running" /\ pc = "daily"
    /\ day_ranges' =
          [r \in 1..Len(DayRanges) |->
              LET in_range == SelectSeq(parsed_transactions,
                                        LAMBDA t : DayRanges[r][1] <= t.day
                                                   /\ t.day <= DayRanges[r][2])
                  range_debits == SumDebit(in_range)
                  range_count == Len(SelectSeq(in_range, LAMBDA t : t.debit > 0))
              IN  [range_debits |-> range_debits,
                   range_count |-> range_count,
                   average |-> IF range_count > 0
                               THEN <<Ratio(range_debits, range_count)>> ELSE <<>>]]
    /\ pc' = "verify"
    /\ UNCHANGED <<classifyVars, auditVars, prog, rows, next_row, outcome, errors, parsed_transactions,
                   first_txn, last_txn, transactions, credits, debits, daily_flow,
                   monthly_data, income_sources, merchant_patterns, anomalies, insights>>

\* abs(expected_balance - actual_balance) > Decimal('0.02')  (line 256), in cents
AnalyzeTolerance == 2

\* The loop of lines 248-262 up to and including index n (1-based).
RECURSIVE balance_anomalies(_, _)
balance_anomalies(txns, n) ==
    IF n < 2 THEN <<>>
    ELSE LET prev_txn == txns[n - 1]
             curr_txn == txns[n]
             expected_balance == prev_txn.balance - curr_txn.debit + curr_txn.credit
             actual_balance == curr_txn.balance
         IN  balance_anomalies(txns, n - 1) \o
             (IF Abs(expected_balance - actual_balance) > AnalyzeTolerance
              THEN << [date |-> curr_txn.date,
                       expected |-> expected_balance,
                       actual |-> actual_balance,
                       diff |-> actual_balance - expected_balance] >>
              ELSE <<>>)

\* Section 7 (lines 247-262).
BalanceVerification ==
    /\ prog = "analyze" /\ outcome = "running" /\ pc = "verify"
    /\ anomalies' = balance_anomalies(parsed_transactions, Len(parsed_transactions))
    /\ pc' = "insights"
    /\ UNCHANGED <<classifyVars, auditVars, prog, rows, next_row, outcome, errors,
                   parsed_transactions, first_txn, last_txn, transactions, credits, debits,
                   daily_flow, monthly_data, income_sources, merchant_patterns, day_ranges,
                   insights>>

\* Section 8 (lines 275-286); the script then prints and ends.
KeyInsights ==
    /\ prog = "analyze" /\ outcome = "running" /\ pc = "insights"
    /\ LET total_income == SumCredit(parsed_transactions)
           total_expenses == SumDebit(parsed_transactions)
           starting == ImpliedOpening(first_txn[1])
       IN  insights' = [total_income |-> total_income,
                        total_expenses |-> total_expenses,
                        net_position |-> total_income - total_expenses,
                        starting_balance |-> starting,
                        ending_balance |-> last_txn[1].balance,
                        actual_change |-> last_txn[1].balance - starting]
    /\ pc' = "done"
    /\ outcome' = "ok"
    /\ UNCHANGED <<classifyVars, auditVars, prog, rows, next_row, errors,
                   parsed_transactions, first_txn, last_txn, transactions, credits, debits,
                   daily_flow, monthly_data, income_sources, merchant_patterns, day_ranges,
                   anomalies>>

(***************************************************************************)
(* audit_analyzer.py, FinancialAuditor.load_data (lines 22-56).            *)
(***************************************************************************)
LoadException(row) ==
    IF DecimalOrZeroRaises(row.debit) \/ DecimalOrZeroRaises(row.credit)
       \/ DecimalOrZeroRaises(row.balance)
    THEN "InvalidOperation" ELSE ""

LoadedRecord(row) ==
    [txn_id |-> row.txn_id,
     value_date |-> row.value_date,
     description |-> row.description,
     debit |-> DecimalOrZero(row.debit),
     credit |-> DecimalOrZero(row.credit),
     balance |-> DecimalOrZero(row.balance),
     txn_type |-> row.txn_type]

\* defaultdict(list)[key].append(x)
AppendAt(d, key, x) ==
    [k \in DOMAIN d \cup {key} |->
        IF k = key THEN (IF key \in DOMAIN d THEN Append(d[key], x) ELSE <<x>>) ELSE d[k]]

\* One iteration of `for row in reader` (lines 26-56); nothing catches what
\* Decimal raises.
LoadRow ==
    /\ prog = "audit" /\ outcome = "running" /\ pc = "load"
    /\ next_row <= Len(rows)
    /\ IF LoadException(rows[next_row]) # ""
       THEN /\ outcome' = LoadException(rows[next_row])
            /\ UNCHANGED <<next_row, transactions, credits, debits, daily_flow>>
       ELSE LET txn == LoadedRecord(rows[next_row]) IN
            /\ transactions' = Append(transactions, txn)
            /\ IF txn.txn_type = "credit"
               THEN credits' = Append(credits, txn) /\ UNCHANGED debits
               ELSE debits' = Append(debits, txn) /\ UNCHANGED credits
            /\ daily_flow' = AppendAt(daily_flow, txn.value_date, txn.txn_id)
            /\ next_row' = next_row + 1
            /\ UNCHANGED outcome
    /\ UNCHANGED <<classifyVars, analyzeVars, auditVars, prog, rows, pc, errors, parsed_transactions,
                   first_txn, last_txn>>

\* load_data returns; run_full_audit goes on to generate_summary_statistics.
LoadDone ==
    /\ prog = "audit" /\ outcome = "running" /\ pc = "load"
    /\ next_row > Len(rows)
    /\ pc' = "summary"
    /\ UNCHANGED <<classifyVars, analyzeVars, auditVars, prog, rows, next_row, outcome, errors, parsed_transactions,
                   first_txn, last_txn, transactions, credits, debits, daily_flow>>

(***************************************************************************)
(* FinancialAuditor.generate_summary_statistics (lines 255-284).           *)
(***************************************************************************)
MinOrdinal(txns) ==
    CHOOSE o \in {toordinal(DayFirst(txns[n].value_date)) : n \in 1..Len(txns)} :
        \A n \in 1..Len(txns) : o <= toordinal(DayFirst(txns[n].value_date))

MaxOrdinal(txns) ==
    CHOOSE o \in {toordinal(DayFirst(txns[n].value_date)) : n \in 1..Len(txns)} :
        \A n \in 1..Len(txns) : o >= toordinal(DayFirst(txns[n].value_date))

\* float(total / len(xs)) if xs else 0  (lines 282-283)
average_amount(total, xs) == IF xs # <<>> THEN Ratio(total, Len(xs)) ELSE Zero

GenerateSummaryStatistics ==
    /\ prog = "audit" /\ outcome = "running" /\ pc = "summary"
    /\ IF transactions = <<>>
       THEN outcome' = "IndexError" /\ UNCHANGED <<pc, summary>>
       ELSE IF \E n \in 1..Len(transactions) : ~DayFirstOk(transactions[n].value_date)
       THEN outcome' = "ValueError" /\ UNCHANGED <<pc, summary>>
       ELSE LET total_credits == SumCredit(credits)
                total_debits == SumDebit(debits)
                opening_balance == transactions[1].balance - transactions[1].credit
                                   + transactions[1].debit
                closing_balance == transactions[Len(transactions)].balance
                days == MaxOrdinal(transactions) - MinOrdinal(transactions) + 1
                result ==
                    [total_days |-> days,
                     opening_balance |-> opening_balance,
                     closing_balance |-> closing_balance,
                     total_credits |-> total_credits,
                     total_debits |-> total_debits,
                     net_change |-> closing_balance - opening_balance,
                     total_transactions |-> Len(transactions),
                     total_credit_txns |-> Len(credits),
                     total_debit_txns |-> Len(debits),
                     avg_daily_credit |-> Ratio(total_credits, days),
                     avg_daily_debit |-> Ratio(total_debits, days),
                     avg_credit_amount |-> average_amount(total_credits, credits),
                     avg_debit_amount |-> average_amount(total_debits, debits)]
            IN  IF 0 \in {result.avg_daily_credit.den, result.avg_daily_debit.den,
                          result.avg_credit_amount.den, result.avg_debit_amount.den}
                THEN outcome' = "DivisionByZero" /\ UNCHANGED <<pc, summary>>
                ELSE summary' = result /\ pc' = "verify" /\ UNCHANGED outcome
    /\ UNCHANGED <<classifyVars, analyzeVars, prog, rows, next_row, errors,
                   parsed_transactions, first_txn, last_txn, transactions, credits, debits,
                   daily_flow,
                   verification_issues, patterns, detected, all_transactions>>

(***************************************************************************)
(* FinancialAuditor.verify_balances (lines 176-205).                       *)
(***************************************************************************)
\* abs(expected_balance - actual_balance) > Decimal('0.01')  (line 195), in cents
AuditTolerance == 1

\* The loop of lines 182-203 up to and including index n (1-based).
RECURSIVE verify_balances_upto(_, _)
verify_balances_upto(txns, n) ==
    IF n < 2 THEN <<>>
    ELSE LET txn == txns[n]
             prev_txn == txns[n - 1]
             expected_balance == prev_txn.balance + txn.credit - txn.debit
             actual_balance == txn.balance
         IN  verify_balances_upto(txns, n - 1) \o
             (IF Abs(expected_balance - actual_balance) > AuditTolerance
              THEN << [txn_id |-> txn.txn_id,
                       date |-> txn.value_date,
                       expected |-> expected_balance,
                       actual |-> actual_balance,
                       difference |-> actual_balance - expected_balance] >>
              ELSE <<>>)

\* The loop leaving at its first issue.
verify_balances_first_only(txns) ==
    LET issues == verify_balances_upto(txns, Len(txns))
    IN  IF issues = <<>> THEN <<>> ELSE <<issues[1]>>

verify_balances(txns) == verify_balances_upto(txns, Len(txns))

VerifyBalances ==
    /\ prog = "audit" /\ outcome = "running" /\ pc = "verify"
    /\ verification_issues' = verify_balances(transactions)
    /\ pc' = "patterns"
    /\ UNCHANGED <<classifyVars, analyzeVars, prog, rows, next_row, errors,
                   parsed_transactions, first_txn, last_txn, transactions, credits, debits,
                   daily_flow, outcome,
                   summary, patterns, detected, all_transactions>>

(***************************************************************************)
(* FinancialAuditor.analyze_patterns (lines 207-253).                      *)
(***************************************************************************)
\* The size thresholds 500, 5000 and 50000 (lines 237, 239, 241), in cents.
SmallLimit == 50000
MediumLimit == 500000
LargeLimit == 5000000

\* The size chain with <= for < .
size_category_inclusive(amount) ==
    IF amount <= SmallLimit THEN "small"
    ELSE IF amount <= MediumLimit THEN "medium"
    ELSE IF amount <= LargeLimit THEN "large"
    ELSE "very_large"

\* lines 236-244.  amount = float(txn['debit']): a decimal with two places is
\* below one of these whole-number thresholds exactly when its float is.
size_category(amount) ==
    IF amount < SmallLimit THEN "small"
    ELSE IF amount < MediumLimit THEN "medium"
    ELSE IF amount < LargeLimit THEN "large"
    ELSE "very_large"

\* int(txn['value_date'].split('/')[1])  (lines 221-222)
SecondDatePart(t) == t.b

AnalyzePatterns ==
    /\ prog = "audit" /\ outcome = "running" /\ pc = "patterns"
    /\ IF \E n \in 1..Len(transactions) : transactions[n].value_date.fmt # "slash"
       THEN outcome' = "IndexError" /\ UNCHANGED <<pc, patterns>>
       ELSE LET days == {SecondDatePart(transactions[n].value_date) : n \in 1..Len(transactions)}
                spent == SelectSeq(transactions, LAMBDA t : t.txn_type = "debit")
                Category(t) == categorize_transaction(t.description, t.txn_type)
                Merchant(t) == extract_merchant(t.description)
                categories == {Category(spent[n]) : n \in 1..Len(spent)}
                merchants == {Merchant(spent[n]) : n \in 1..Len(spent)}
            IN  /\ patterns' =
                     [day_of_month |->
                         [d \in days |->
                             Len(SelectSeq(transactions, LAMBDA t : SecondDatePart(t.value_date) = d))],
                      category_totals |->
                         [c \in categories |->
                             SumDebit(SelectSeq(spent, LAMBDA t : Category(t) = c))],
                      category_counts |->
                         [c \in categories |-> Len(SelectSeq(spent, LAMBDA t : Category(t) = c))],
                      merchant_totals |->
                         [m \in merchants |->
                             SumDebit(SelectSeq(spent, LAMBDA t : Merchant(t) = m))],
                      merchant_counts |->
                         [m \in merchants |-> Len(SelectSeq(spent, LAMBDA t : Merchant(t) = m))],
                      size_categories |->
                         [b \in {"small", "medium", "large", "very_large"} |->
                             Len(SelectSeq(spent, LAMBDA t : size_category(t.debit) = b))]]
                /\ pc' = "anomalies"
                /\ UNCHANGED outcome
    /\ UNCHANGED <<classifyVars, analyzeVars, prog, rows, next_row, errors,
                   parsed_transactions, first_txn, last_txn, transactions, credits, debits,
                   daily_flow,
                   summary, verification_issues, detected, all_transactions>>

(***************************************************************************)
(* FinancialAuditor.detect_anomalies (lines 286-327).                      *)
(***************************************************************************)
\* sum(t['debit'] for t in self.debits) / len(self.debits) if self.debits else 0  (line 291)
mean_debit(xs) == IF xs # <<>> THEN Ratio(SumDebit(xs), Len(xs)) ELSE Zero

\* The values of a sequence in the order they first occur (dict key order).
RECURSIVE FirstSeen(_)
FirstSeen(xs) ==
    IF xs = <<>> THEN <<>>
    ELSE LET front == FirstSeen(SubSeq(xs, 1, Len(xs) - 1))
             x == xs[Len(xs)]
         IN  IF \E n \in 1..Len(front) : front[n] = x THEN front ELSE Append(front, x)

RECURSIVE Flatten(_)
Flatten(seqs) == IF seqs = <<>> THEN <<>> ELSE Head(seqs) \o Flatten(Tail(seqs))

\* s[:n]
Prefix(s, n) == SubSeq(s, 1, IF Len(s) < n THEN Len(s) ELSE n)

\* The amount taken from the debit side whatever the type.
MovedAmount_debit_only(txn) == txn.debit

\* txn['debit'] if txn['txn_type'] == 'debit' else txn['credit']  (line 308)
MovedAmount(txn) == IF txn.txn_type = "debit" THEN txn.debit ELSE txn.credit

\* lines 293-302: debits above three times the mean debit, avg being num/den
LargeTransactions(avg) ==
    LET big == SelectSeq(debits, LAMBDA t : t.debit * avg.den > avg.num * 3)
    IN  [n \in 1..Len(big) |->
            [type |-> "Large Transaction",
             date |-> big[n].value_date,
             amount |-> big[n].debit,
             merchant |-> extract_merchant(big[n].description),
             description |-> Prefix(big[n].description, 100)]]

\* lines 304-325: per date, the amounts that two or more transactions share
DuplicateAmounts ==
    LET moved == SelectSeq(transactions, LAMBDA t : MovedAmount(t) > 0)
        dates == FirstSeen([n \in 1..Len(moved) |-> moved[n].value_date])
        OnDate(date) == SelectSeq(moved, LAMBDA t : t.value_date = date)
        AmountsOn(date) ==
            FirstSeen([n \in 1..Len(OnDate(date)) |-> MovedAmount(OnDate(date)[n])])
        Cluster(date, amt) == SelectSeq(OnDate(date), LAMBDA t : MovedAmount(t) = amt)
        ForAmount(date, amt) ==
            IF Len(Cluster(date, amt)) > 1
            THEN << [type |-> "Duplicate Amount",
                     date |-> date,
                     amount |-> amt,
                     count |-> Len(Cluster(date, amt)),
                     transactions |->
                         [n \in 1..Len(Cluster(date, amt)) |->
                             Prefix(Cluster(date, amt)[n].description, 50)]] >>
            ELSE <<>>
        ForDate(date) ==
            Flatten([n \in 1..Len(AmountsOn(date)) |-> ForAmount(date, AmountsOn(date)[n])])
    IN  Flatten([n \in 1..Len(dates) |-> ForDate(dates[n])])

DetectAnomalies ==
    /\ prog = "audit" /\ outcome = "running" /\ pc = "anomalies"
    /\ LET avg_debit == mean_debit(debits) IN
       IF avg_debit.den = 0
       THEN outcome' = "DivisionByZero" /\ UNCHANGED <<pc, detected>>
       ELSE /\ detected' = [avg_debit |-> avg_debit,
                            large |-> LargeTransactions(avg_debit),
                            duplicates |-> DuplicateAmounts]
            /\ pc' = "save"
            /\ UNCHANGED outcome
    /\ UNCHANGED <<classifyVars, analyzeVars, prog, rows, next_row, errors,
                   parsed_transactions, first_txn, last_txn, transactions, credits, debits,
                   daily_flow,
                   summary, verification_issues, patterns, all_transactions>>

\* run_full_audit, lines 346-377: the per-transaction detail, then the report.
SaveResults ==
    /\ prog = "audit" /\ outcome = "running" /\ pc = "save"
    /\ all_transactions' =
          [n \in 1..Len(transactions) |->
              [txn_id |-> transactions[n].txn_id,
               category |-> categorize_transaction(transactions[n].description,
                                                   transactions[n].txn_type),
               merchant |-> extract_merchant(transactions[n].description)]]
    /\ pc' = "done"
    /\ outcome' = "ok"
    /\ UNCHANGED <<classifyVars, analyzeVars, prog, rows, next_row, errors,
                   parsed_transactions, first_txn, last_txn, transactions, credits, debits,
                   daily_flow,
                   summary, verification_issues, patterns, detected>>

(***************************************************************************)
(* A run: the program, the file, and the state after construction.         *)
(***************************************************************************)
MaxRows == 3

\* csv.DictReader rows over the fields of RowSet, numbered in file order.
Files(RowSet) ==
    { [n \in DOMAIN f |-> [txn_id |-> n,
                           value_date |-> f[n].value_date,
                           description |-> f[n].description,
                           debit |-> f[n].debit,
                           credit |-> f[n].credit,
                           balance |-> f[n].balance,
                           txn_type |-> f[n].txn_type]] :
      f \in UNION {[1..n -> RowSet] : n \in 0..MaxRows} }

ClassifierIdle ==
    /\ c_desc = "" /\ c_alt = "" /\ c_type = "debit"
    /\ merchant = <<>> /\ category = <<>> /\ source = <<>> /\ recurring = <<>>

RunStart ==
    /\ next_row = 1
    /\ outcome = "running"
    /\ errors = <<>>
    /\ parsed_transactions = <<>>
    /\ first_txn = <<>>
    /\ last_txn = <<>>
    /\ transactions = <<>>
    /\ credits = <<>>
    /\ debits = <<>>
    /\ daily_flow = <<>>
    /\ monthly_data = <<>>
    /\ income_sources = <<>>
    /\ merchant_patterns = <<>>
    /\ day_ranges = <<>>
    /\ anomalies = <<>>
    /\ insights = <<>>
    /\ summary = <<>>
    /\ verification_issues = <<>>
    /\ patterns = <<>>
    /\ detected = <<>>
    /\ all_transactions = <<>>

RunIdle ==
    /\ prog = "none" /\ rows = <<>> /\ pc = "idle"
    /\ RunStart

RunInit(RowSet) ==
    /\ ClassifierIdle
    /\ prog \in {"analyze", "audit"}
    /\ rows \in Files(RowSet)
    /\ pc = IF prog = "analyze" THEN "parse" ELSE "load"
    /\ RunStart

\* The stages of each program in the order they run; a run that ends with an
\* exception stays at the stage that raised it.
AnalyzeStages == <<"parse", "progression", "monthly", "income", "recurring", "daily",
                   "verify", "insights", "done">>
AuditStages == <<"load", "summary", "verify", "patterns", "anomalies", "save", "done">>

Position(stages, stage) == CHOOSE n \in 1..Len(stages) : stages[n] = stage

\* Program p has completed the given stage.
Completed(p, stage) ==
    /\ prog = p
    /\ LET stages == IF p = "analyze" THEN AnalyzeStages ELSE AuditStages
       IN  Position(stages, pc) > Position(stages, stage)

RunNext ==
    \/ ParseRow
    \/ SortByDate
    \/ BalanceProgression
    \/ MonthlyBreakdown
    \/ IncomeAnalysis
    \/ RecurringTransactions
    \/ DailySpendingPattern
    \/ BalanceVerification
    \/ KeyInsights
    \/ LoadRow
    \/ LoadDone
    \/ GenerateSummaryStatistics
    \/ VerifyBalances
    \/ AnalyzePatterns
    \/ DetectAnomalies
    \/ SaveResults

\* Files whose rows may fail to parse.
LoadRowSet ==
    [value_date : {DateText(10, 1, 2026), DateText(5, 1, 2026), DateText(1, 24, 2026), OtherText},
     description : {"UPI/ZEPTO MART/1234"},
     debit : {Num(45000), NonNumeric},
     credit : {Empty},
     balance : {Num(100000), Empty},
     txn_type : {"debit"}]

LoadInit == RunInit(LoadRowSet)

SpecLoad == LoadInit /\ [][RunNext]_vars

\* Files of well-formed rows of one date whose balances agree or disagree with
\* the running balance by 0 to 6 cents.
LedgerRowSet ==
    [value_date : {DateText(1, 1, 2026)},
     description : {"ATM WDL"},
     debit : {Num(2)},
     credit : {Empty},
     balance : {Num(10), Num(11), Num(12), Num(13)},
     txn_type : {"debit"}]
    \cup
    [value_date : {DateText(1, 1, 2026)},
     description : {"NEFT IN"},
     debit : {Empty},
     credit : {Num(3)},
     balance : {Num(10), Num(11), Num(12), Num(13)},
     txn_type : {"credit"}]

LedgerInit == RunInit(LedgerRowSet)

SpecLedger == LedgerInit /\ [][RunNext]_vars

\* Files of well-formed rows over two months, in any order: credits that leave
\* an implied opening balance of 0 or 3, and debits.
MonthlyRowSet ==
    [value_date : {DateText(15, 1, 2026), DateText(31, 1, 2026), DateText(1, 2, 2026)},
     description : {"NEFT IN"},
     debit : {Empty},
     credit : {Num(5)},
     balance : {Num(5), Num(8)},
     txn_type : {"credit"}]
    \cup
    [value_date : {DateText(15, 1, 2026), DateText(31, 1, 2026), DateText(1, 2, 2026)},
     description : {"ZEPTO"},
     debit : {Num(5)},
     credit : {Empty},
     balance : {Num(3)},
     txn_type : {"debit"}]

MonthlyInit == RunInit(MonthlyRowSet)

SpecMonthly == MonthlyInit /\ [][RunNext]_vars

\* Files of well-formed rows whose debits sit on and next to the size thresholds.
SizeRowSet ==
    [value_date : {DateText(10, 1, 2026)},
     description : {"UPI/ZEPTO MART/1234"},
     debit : {Num(SmallLimit - 1), Num(SmallLimit), Num(MediumLimit - 1), Num(MediumLimit),
              Num(LargeLimit - 1), Num(LargeLimit)},
     credit : {Empty},
     balance : {Num(100000)},
     txn_type : {"debit"}]
    \cup
    [value_date : {DateText(10, 1, 2026)},
     description : {"NEFT IN"},
     debit : {Empty},
     credit : {Num(SmallLimit)},
     balance : {Num(100000)},
     txn_type : {"credit"}]

SizeInit == RunInit(SizeRowSet)

SpecSize == SizeInit /\ [][RunNext]_vars

\* Files of well-formed rows on two dates: debits of 1500 and 200, credits of
\* 1500, and rows that move nothing; each row's txn_type names its nonzero side.
DuplicateRowSet ==
    [value_date : {DateText(10, 1, 2026), DateText(11, 1, 2026)},
     description : {"UPI/ZEPTO MART/1234"},
     debit : {Num(150000), Num(20000)},
     credit : {Empty},
     balance : {Num(100000)},
     txn_type : {"debit"}]
    \cup
    [value_date : {DateText(10, 1, 2026), DateText(11, 1, 2026)},
     description : {"NEFT IN"},
     debit : {Empty},
     credit : {Num(150000)},
     balance : {Num(100000)},
     txn_type : {"credit"}]
    \cup
    [value_date : {DateText(10, 1, 2026), DateText(11, 1, 2026)},
     description : {"BALANCE NOTE"},
     debit : {Empty},
     credit : {Empty},
     balance : {Num(100000)},
     txn_type : {"debit"}]

DuplicateInit == RunInit(DuplicateRowSet)

SpecDuplicates == DuplicateInit /\ [][RunNext]_vars

(***************************************************************************)
(* The classifier on its own: one description, the same description in     *)
(* another letter case, and a transaction type; each action is one call.   *)
(***************************************************************************)
Descriptions ==
    { "UPI/POONAM M/REF", "UPI/AGI READ/REF", "UPI/MOHIT S/REF", "UPI/JASVIN T/REF",
      "UPI/CHHAVI/REF", "GOOGLE PAY", "UPI/AARYAN/REF", "UPI/ZEPTO MART/1234",
      "SWIGGY ORDER", "Amazon Refund", "DOMINO PIZZA", "DOMINOS", "THAPAR FEES",
      "GROWW SIP", "MUTUAL FUND", "AIRTEL BILL", "APPLE.COM", "NETFLIX.COM",
      "WRAP CHIP", "HUNGERBOX", "HUNGER BO X", "BLINKIT", "ZUDIO", "MCDONALDS",
      "MCDONALD", "GOIBIBO", "REBEL", "UPI/MONU", "RAMESH K", "BINDER", "ISHAN V",
      "AMIT KU", "SHASHWAT", "JATINDER", "PUNIT PA", "UNIQUE S", "GROWSY", "BESTIN",
      "M/S.SKY", "SWIGGY AMAZON", "ZEPTO AMAZON", "POONAM M AMAZON", "NEFT SALARY",
      "IMPS IN", "ATM WDL", "" }

CaseVariants(d) == {d, upper(d), lower(d)}

TxnTypes == {"credit", "debit"}

ClassifyInit ==
    /\ c_desc \in Descriptions
    /\ c_alt \in CaseVariants(c_desc)
    /\ c_type \in TxnTypes
    /\ merchant = <<>>
    /\ category = <<>>
    /\ source = <<>>
    /\ recurring = <<>>
    /\ RunIdle

ExtractMerchant ==
    /\ merchant = <<>>
    /\ merchant' = <<extract_merchant(c_desc), extract_merchant(c_alt)>>
    /\ UNCHANGED <<c_desc, c_alt, c_type, category, source, recurring, loadVars, analyzeVars, auditVars>>

CategorizeTransaction ==
    /\ category = <<>>
    /\ category' = <<categorize_transaction(c_desc, c_type),
                     categorize_transaction(c_alt, c_type)>>
    /\ UNCHANGED <<c_desc, c_alt, c_type, merchant, source, recurring, loadVars, analyzeVars, auditVars>>

IncomeSource ==
    /\ source = <<>>
    /\ source' = <<income_source(c_desc), income_source(c_alt)>>
    /\ UNCHANGED <<c_desc, c_alt, c_type, merchant, category, recurring, loadVars, analyzeVars, auditVars>>

RecurringMerchant ==
    /\ recurring = <<>>
    /\ recurring' = <<recurring_merchant(c_desc), recurring_merchant(c_alt)>>
    /\ UNCHANGED <<c_desc, c_alt, c_type, merchant, category, source, loadVars, analyzeVars, auditVars>>

ClassifyNext ==
    \/ ExtractMerchant
    \/ CategorizeTransaction
    \/ IncomeSource
    \/ RecurringMerchant

SpecClassify == ClassifyInit /\ [][ClassifyNext]_vars


(***************************************************************************)
(* Claims about the classifier (checked under SpecClassify).               *)
(***************************************************************************)
\* The (substring pattern, label) rules of extract_merchant in chain order; a
\* branch with `or` gives one rule per pattern.
Rules ==
    << <<"POONAM M", "POONAM M">>, <<"AGI READ", "AGI READ">>, <<"MOHIT S", "MOHIT S">>,
       <<"JASVIN T", "JASVIN T">>, <<"CHHAVI", "CHHAVI">>, <<"GOOGLE", "GOOGLE">>,
       <<"AARYAN", "AARYAN">>, <<"ZEPTO", "ZEPTO">>, <<"SWIGGY", "SWIGGY">>,
       <<"AMAZON", "AMAZON">>, <<"DOMINO", "DOMINOS">>, <<"THAPAR", "THAPAR INSTITUTE">>,
       <<"GROWW", "GROWW/INVESTMENTS">>, <<"MUTUAL F", "GROWW/INVESTMENTS">>,
       <<"AIRTEL", "AIRTEL">>, <<"APPLE", "APPLE">>, <<"NETFLIX", "NETFLIX">>,
       <<"WRAP CHIP", "WRAP CHIP">>, <<"HUNGERBOX", "HUNGERBOX">>,
       <<"HUNGER BO X", "HUNGERBOX">>, <<"BLINKIT", "BLINKIT">>, <<"ZUDIO", "ZUDIO">>,
       <<"MCDONALDS", "MCDONALDS">>, <<"MCDONALD", "MCDONALDS">>, <<"GOIBIBO", "GOIBIBO">>,
       <<"REBEL", "REBEL MARKET">>, <<"MONU", "MONU">>, <<"RAMESH", "RAMESH K">>,
       <<"BINDER", "BINDER">>, <<"ISHAN", "ISHAN VOHRA">>, <<"AMIT", "AMIT KU">>,
       <<"SHASHWAT", "SHASHWAT">>, <<"JATINDER", "JATINDER">>, <<"PUNIT", "PUNIT PA">>,
       <<"UNIQUE", "UNIQUE S">>, <<"GROWSY", "GROWSY">>, <<"BESTIN", "BESTIN">>,
       <<"SKY", "M/S.SKY">> >>

MerchantLabels == {Rules[i][2] : i \in 1..Len(Rules)} \cup {"OTHER"}

\* The positions of the rules whose pattern occurs in the upper-cased description.
MatchingRules(description) ==
    {i \in 1..Len(Rules) : Contains(Rules[i][1], upper(description))}

FamilyGroup == {"POONAM M", "MOHIT S", "AGI READ"}
PeerGroup   == {"JASVIN T", "AARYAN", "CHHAVI"}
RewardGroup == {"GOOGLE"}

\* C7 (as claimed): two descriptions that differ only in letter case get the
\* same merchant, the same category for the same transaction type, the same
\* income-source label and the same recurring-merchant label.
C7_CaseInsensitive ==
    /\ merchant # <<>> => merchant[1] = merchant[2]
    /\ category # <<>> => category[1] = category[2]
    /\ source # <<>> => source[1] = source[2]
    /\ recurring # <<>> => recurring[1] = recurring[2]

\* C8: extract_merchant returns the label of the lowest-positioned rule whose
\* pattern occurs in the upper-cased description, OTHER exactly when no rule
\* matches, and always a label of the closed set.
C8_FirstMatchWins ==
    merchant # <<>> =>
        LET hits == MatchingRules(c_desc) IN
        /\ hits # {} =>
               merchant[1] = Rules[CHOOSE i \in hits : \A j \in hits : i <= j][2]
        /\ (merchant[1] = "OTHER") <=> (hits = {})
        /\ merchant[1] \in MerchantLabels

\* C8 witness: a description matched by rules with different labels has been
\* labelled.
C8_Witness ==
    /\ merchant # <<>>
    /\ \E i, j \in MatchingRules(c_desc) : i < j /\ Rules[i][2] # Rules[j][2]

\* C9 (as claimed): a credit whose extracted merchant is in none of the family,
\* peer and reward groups is categorised Income - Other.
C9_UngroupedCreditIsOther ==
    (/\ merchant # <<>>
     /\ category # <<>>
     /\ c_type = "credit"
     /\ merchant[1] \notin FamilyGroup \cup PeerGroup \cup RewardGroup)
        => category[1] = "Income - Other"

\* C9 (amended): the category of a credit is Income - Family, Income -
\* Friends/Peer Transfer or Income - Rewards when its extracted merchant is in
\* the family, peer or reward group; otherwise it is Income - Refund when the
\* upper-cased description contains AMAZON, and Income - Other when it does not.
C9_CreditCategory ==
    (merchant # <<>> /\ category # <<>> /\ c_type = "credit") =>
        category[1] =
            IF merchant[1] \in FamilyGroup THEN "Income - Family"
            ELSE IF merchant[1] \in PeerGroup THEN "Income - Friends/Peer Transfer"
            ELSE IF merchant[1] \in RewardGroup THEN "Income - Rewards"
            ELSE IF Contains("AMAZON", upper(c_desc)) THEN "Income - Refund"
            ELSE "Income - Other"

\* C9 witness: a credit outside the three groups whose description names
\* AMAZON without AMAZON being its merchant has been categorised.
C9_Witness ==
    /\ merchant # <<>>
    /\ category # <<>>
    /\ c_type = "credit"
    /\ merchant[1] \notin FamilyGroup \cup PeerGroup \cup RewardGroup \cup {"AMAZON"}
    /\ category[1] = "Income - Refund"

(***************************************************************************)
(* Claims about loading (checked under SpecLoad).                          *)
(***************************************************************************)
\* The sequence the stages after loading work on, and each record's date.
Loaded == (prog = "analyze" /\ pc # "parse") \/ (prog = "audit" /\ pc # "load")

\* C2 (as claimed): once loading is over, the record sequence is in ascending
\* valueDate order and records of one valueDate are in file order, both for
\* parsed_transactions and for the transactions of load_data.
C2_SortedStable ==
    /\ (prog = "analyze" /\ pc # "parse") =>
          \A m, n \in 1..Len(parsed_transactions) :
             m < n =>
                LET dm == toordinal(parsed_transactions[m].date)
                    dn == toordinal(parsed_transactions[n].date)
                IN  /\ dm <= dn
                    /\ dm = dn => parsed_transactions[m].txn_id < parsed_transactions[n].txn_id
    /\ (prog = "audit" /\ pc # "load") =>
          \A m, n \in 1..Len(transactions) :
             (/\ m < n
              /\ DayFirstOk(transactions[m].value_date)
              /\ DayFirstOk(transactions[n].value_date)) =>
                LET dm == toordinal(DayFirst(transactions[m].value_date))
                    dn == toordinal(DayFirst(transactions[n].value_date))
                IN  /\ dm <= dn
                    /\ dm = dn => transactions[m].txn_id < transactions[n].txn_id

\* A row whose date matches neither layout, that has a non-numeric amount, or
\* that lacks its balance.
Unparseable(row) ==
    \/ ~DayFirstOk(row.value_date) /\ ~MonthFirstOk(row.value_date)
    \/ row.debit.kind = "bad" \/ row.credit.kind = "bad" \/ row.balance.kind = "bad"
    \/ row.balance.kind = "empty"

Ids(seq) == {seq[n].txn_id : n \in 1..Len(seq)}

\* C3 (as claimed): no unparseable row ends the run, and once loading is over
\* exactly the unparseable rows have been reported by identifier and every
\* other row is in the output, in both programs.
C3_RowFailureIsRecoverable ==
    /\ outcome \notin {"InvalidOperation", "ValueError"}
    /\ Loaded =>
          \A n \in 1..Len(rows) :
             /\ Unparseable(rows[n]) <=> rows[n].txn_id \in Ids(errors)
             /\ ~Unparseable(rows[n]) <=>
                   rows[n].txn_id \in Ids(IF prog = "analyze" THEN parsed_transactions
                                          ELSE transactions)

\* C4 (as claimed): with no valid record left after normalization, a stage
\* that needs the first transaction ends the run with EmptyDatasetError, and
\* the run never ends by indexing the empty sequence.
C4_EmptyDatasetError ==
    /\ outcome # "IndexError"
    /\ (/\ Loaded
        /\ (IF prog = "analyze" THEN parsed_transactions ELSE transactions) = <<>>
        /\ outcome # "running") => outcome = "EmptyDatasetError"

(***************************************************************************)
(* Claims about ledger verification (checked under SpecLedger).            *)
(***************************************************************************)
\* The records verification walks, its tolerance and its result.
Ledger == IF prog = "analyze" THEN parsed_transactions ELSE transactions
Tolerance == IF prog = "analyze" THEN AnalyzeTolerance ELSE AuditTolerance
Issues == IF prog = "analyze" THEN anomalies ELSE verification_issues
Verified == Completed("analyze", "verify") \/ Completed("audit", "verify")

\* expected_n: the recorded balance of record n-1 plus credit_n minus debit_n
ExpectedAt(n) == Ledger[n - 1].balance + Ledger[n].credit - Ledger[n].debit

Flagged == {n \in 2..Len(Ledger) : Abs(ExpectedAt(n) - Ledger[n].balance) > Tolerance}
Matching == {n \in 2..Len(Ledger) : Abs(ExpectedAt(n) - Ledger[n].balance) <= Tolerance}

\* The k-th flagged record, in sequence order.
KthFlagged(k) == CHOOSE n \in Flagged : Cardinality({m \in Flagged : m < n}) = k - 1

\* C1: after verification the issues are, in order, one per record n >= 2 with
\* abs(expected_n - balance_n) > tolerance and none for any other record; each
\* carries expected_n, balance_n and balance_n - expected_n; and the number of
\* issues plus the number of matching records is len(records) - 1.
C1_LedgerVerification ==
    Verified =>
        /\ Len(Issues) = Cardinality(Flagged)
        /\ \A k \in 1..Len(Issues) :
              LET n == KthFlagged(k) IN
              /\ Issues[k].expected = ExpectedAt(n)
              /\ Issues[k].actual = Ledger[n].balance
              /\ (IF prog = "analyze" THEN Issues[k].diff ELSE Issues[k].difference)
                    = Ledger[n].balance - ExpectedAt(n)
              /\ prog = "audit" => Issues[k].txn_id = Ledger[n].txn_id
        /\ prog = "audit" => \A k \in 1..Len(Issues) : Issues[k].txn_id # Ledger[1].txn_id
        /\ Len(Issues) + Cardinality(Matching) = Len(Ledger) - 1

\* C1 witness: verification has reported two issues (it went on after the
\* first), the later one measured from the recorded balance of the record
\* before it, which was itself flagged.
C1_Witness ==
    /\ Verified
    /\ Len(Issues) >= 2
    /\ 2 \in Flagged /\ 3 \in Flagged

(***************************************************************************)
(* Claims about the monthly rollup and the guarded divisions (checked      *)
(* under SpecMonthly).                                                     *)
(***************************************************************************)
RecordsOf(month) ==
    {parsed_transactions[n] : n \in {k \in 1..Len(parsed_transactions) :
                                        parsed_transactions[k].month = month}}

\* r comes before s in date order, file order deciding between equal dates.
Before(r, s) ==
    \/ toordinal(r.date) < toordinal(s.date)
    \/ toordinal(r.date) = toordinal(s.date) /\ r.txn_id < s.txn_id

FirstOf(month) == CHOOSE r \in RecordsOf(month) : \A s \in RecordsOf(month) : s = r \/ Before(r, s)
LastOf(month) == CHOOSE r \in RecordsOf(month) : \A s \in RecordsOf(month) : s = r \/ Before(s, r)

\* C5: every month that has a record has a rollup whose closing balance is the
\* balance field of the month's last record in stable date order and whose
\* opening balance is balance - credit + debit of the month's first record.
C5_MonthlyRollup ==
    Completed("analyze", "monthly") =>
        /\ DOMAIN monthly_data = Months
        /\ \A month \in Months :
              /\ monthly_data[month].closing_balance = LastOf(month).balance
              /\ monthly_data[month].opening_balance =
                    FirstOf(month).balance - FirstOf(month).credit + FirstOf(month).debit

\* C5 witness: two months rolled up from a file that was not in date order,
\* the later month's opening balance differing from the earlier one's closing.
C5_Witness ==
    /\ Completed("analyze", "monthly")
    /\ Cardinality(Months) = 2
    /\ \E m, n \in 1..Len(rows) :
          m < n /\ toordinal(DayFirst(rows[n].value_date)) < toordinal(DayFirst(rows[m].value_date))
    /\ \E a, b \in Months :
          a < b /\ monthly_data[b].opening_balance # monthly_data[a].closing_balance

\* C6: no run ends by dividing by zero; a month whose opening balance is 0 has
\* growth rate 0; avg_credit_amount, avg_debit_amount and the mean debit of
\* detect_anomalies are 0 when there are no credit / debit records; and every
\* per-source, per-merchant, per-bucket and per-day average has a nonzero divisor.
C6_GuardedDivision ==
    /\ outcome # "DivisionByZero"
    /\ Completed("analyze", "monthly") =>
          \A month \in DOMAIN monthly_data :
             /\ monthly_data[month].growth_rate.den # 0
             /\ monthly_data[month].opening_balance = 0 =>
                   monthly_data[month].growth_rate = Zero
    /\ Completed("analyze", "income") =>
          \A s \in DOMAIN income_sources : income_sources[s].average.den # 0
    /\ Completed("analyze", "recurring") =>
          \A m \in DOMAIN merchant_patterns :
             merchant_patterns[m].average # <<>> => merchant_patterns[m].average[1].den # 0
    /\ Completed("analyze", "daily") =>
          \A r \in DOMAIN day_ranges :
             day_ranges[r].average # <<>> => day_ranges[r].average[1].den # 0
    /\ Completed("audit", "summary") =>
          /\ summary.avg_daily_credit.den # 0 /\ summary.avg_daily_debit.den # 0
          /\ summary.avg_credit_amount.den # 0 /\ summary.avg_debit_amount.den # 0
          /\ credits = <<>> => summary.avg_credit_amount = Zero
          /\ debits = <<>> => summary.avg_debit_amount = Zero
    /\ Completed("audit", "anomalies") =>
          /\ detected.avg_debit.den # 0
          /\ debits = <<>> => detected.avg_debit = Zero

\* C6 witness: a month whose implied opening balance is 0 and whose closing
\* balance is not has been rolled up.
C6_Witness ==
    /\ Completed("analyze", "monthly")
    /\ \E month \in DOMAIN monthly_data :
          /\ monthly_data[month].opening_balance = 0
          /\ monthly_data[month].net_change # 0

(***************************************************************************)
(* Claims about the size buckets (checked under SpecSize).                 *)
(***************************************************************************)
DebitRecords == {n \in 1..Len(transactions) : transactions[n].txn_type = "debit"}

\* C10: every record of type debit is counted in exactly one of small
\* (amount < 500), medium (500 <= amount < 5000), large (5000 <= amount <
\* 50000) and very_large (amount >= 50000), amounts in cents here, and the
\* four counts sum to the number of debit records.
C10_SizeBuckets ==
    Completed("audit", "patterns") =>
        LET size == patterns.size_categories
            amount(n) == transactions[n].debit
        IN  /\ size["small"] = Cardinality({n \in DebitRecords : amount(n) < 50000})
            /\ size["medium"] =
                  Cardinality({n \in DebitRecords : 50000 <= amount(n) /\ amount(n) < 500000})
            /\ size["large"] =
                  Cardinality({n \in DebitRecords : 500000 <= amount(n) /\ amount(n) < 5000000})
            /\ size["very_large"] = Cardinality({n \in DebitRecords : amount(n) >= 5000000})
            /\ size["small"] + size["medium"] + size["large"] + size["very_large"]
                  = Cardinality(DebitRecords)

\* C10 witness: debits of exactly 500, 5000 and 50000 have been counted, one
\* each in medium, large and very_large, and none in small.
C10_Witness ==
    /\ Completed("audit", "patterns")
    /\ {transactions[n].debit : n \in DebitRecords} = {50000, 500000, 5000000}
    /\ patterns.size_categories =
          [b \in {"small", "medium", "large", "very_large"} |-> IF b = "small" THEN 0 ELSE 1]

(***************************************************************************)
(* Claims about duplicate amounts (checked under SpecDuplicates).          *)
(***************************************************************************)
\* Whichever of a transaction's debit and credit is nonzero (0 when neither).
NonzeroSide(txn) == IF txn.debit # 0 THEN txn.debit ELSE txn.credit

\* The transactions of one calendar date that moved the given amount.
ClusterOf(date, amt) ==
    {n \in 1..Len(transactions) :
        DayFirst(transactions[n].value_date) = date /\ NonzeroSide(transactions[n]) = amt}

\* The (calendar date, amount) pairs that some transaction has.
DatedAmounts ==
    {<<DayFirst(transactions[n].value_date), NonzeroSide(transactions[n])>> :
        n \in {k \in 1..Len(transactions) : NonzeroSide(transactions[k]) # 0}}

\* C11: detect_anomalies reports exactly one Duplicate Amount anomaly for each
\* (calendar date, amount) pair that two or more transactions share, its count
\* being the size of that cluster, and none for a pair only one transaction has.
C11_DuplicateAmounts ==
    Completed("audit", "anomalies") =>
        LET dups == detected.duplicates IN
        /\ \A p \in DatedAmounts :
              LET reports == {k \in 1..Len(dups) :
                                 DayFirst(dups[k].date) = p[1] /\ dups[k].amount = p[2]}
              IN  IF Cardinality(ClusterOf(p[1], p[2])) >= 2
                  THEN /\ Cardinality(reports) = 1
                       /\ \A k \in reports :
                             /\ dups[k].type = "Duplicate Amount"
                             /\ dups[k].count = Cardinality(ClusterOf(p[1], p[2]))
                             /\ Len(dups[k].transactions) = dups[k].count
                  ELSE reports = {}
        /\ \A k \in 1..Len(dups) : <<DayFirst(dups[k].date), dups[k].amount>> \in DatedAmounts

\* C11 witness: three debits of 1500 on one date have given one anomaly with
\* count 3.
C11_Witness ==
    /\ Completed("audit", "anomalies")
    /\ Len(transactions) = 3
    /\ \A n \in 1..3 : transactions[n].txn_type = "debit" /\ transactions[n].debit = 150000
    /\ Cardinality({transactions[n].value_date : n \in 1..3}) = 1
    /\ Len(detected.duplicates) = 1
    /\ detected.duplicates[1].count = 3

(***************************************************************************)
(* Claims about the day-of-month histogram (checked under SpecDuplicates). *)
(***************************************************************************)
DaysOfMonth == 1..31

\* The histogram's count for a key, 0 for a key it does not hold.
HistogramAt(d) ==
    IF d \in DOMAIN patterns.day_of_month THEN patterns.day_of_month[d] ELSE 0

RECURSIVE SumOver(_, _)
SumOver(f, keys) ==
    IF keys = {} THEN 0
    ELSE LET k == CHOOSE x \in keys : TRUE IN f[k] + SumOver(f, keys \ {k})

\* C12: after analyze_patterns the histogram counts, under each day of the
\* month 1..31, the transactions whose value_date read as day/month/year (the
\* layout of generate_summary_statistics) falls on that day, and the counts add
\* up to the number of transactions.
C12_DayOfMonthHistogram ==
    Completed("audit", "patterns") =>
        /\ DOMAIN patterns.day_of_month \subseteq DaysOfMonth
        /\ \A d \in DaysOfMonth :
              HistogramAt(d) =
                  Len(SelectSeq(transactions, LAMBDA t : DayFirst(t.value_date).d = d))
        /\ SumOver(patterns.day_of_month, DOMAIN patterns.day_of_month) = Len(transactions)

(***************************************************************************)
(* Claims about the day-of-month buckets (checked under SpecMonthly).      *)
(***************************************************************************)
Buckets == DOMAIN day_ranges

\* The three per-bucket debit sums and counts, added up.
BucketDebits == SumOver([r \in Buckets |-> day_ranges[r].range_debits], Buckets)
BucketCounts == SumOver([r \in Buckets |-> day_ranges[r].range_count], Buckets)

\* The records that spent something.
SpendingRecords == SelectSeq(parsed_transactions, LAMBDA t : t.debit > 0)

\* C13 as stated: the three per-bucket debit sums add up to total expenses and
\* the three per-bucket counts add up to the number of records.
C13_BucketsPartitionBatch ==
    Completed("analyze", "insights") =>
        /\ BucketDebits = insights.total_expenses
        /\ BucketCounts = Len(parsed_transactions)

\* C13 amended: the three per-bucket debit sums add up to total expenses and
\* the three per-bucket counts add up to the number of records with a positive
\* debit; every record's day lies in exactly one of the three ranges.
C13_BucketsPartitionDebits ==
    Completed("analyze", "insights") =>
        /\ BucketDebits = insights.total_expenses
        /\ BucketCounts = Len(SpendingRecords)
        /\ \A n \in 1..Len(parsed_transactions) :
              Cardinality({r \in 1..Len(DayRanges) :
                              /\ DayRanges[r][1] <= parsed_transactions[n].day
                              /\ parsed_transactions[n].day <= DayRanges[r][2]}) = 1

\* C13 witness: a finished run over credits and debits whose debits fell into
\* more than one bucket, one of them on the 31st.
C13_Witness ==
    /\ Completed("analyze", "insights")
    /\ \E n \in 1..Len(parsed_transactions) : parsed_transactions[n].credit > 0
    /\ \E n \in 1..Len(parsed_transactions) :
          parsed_transactions[n].debit > 0 /\ parsed_transactions[n].day = 31
    /\ Cardinality({r \in Buckets : day_ranges[r].range_count > 0}) >= 2

(***************************************************************************)
(* Claims about ledger conservation (checked under SpecMonthly).           *)
(***************************************************************************)
\* Balance verification at tolerance 0 finds no issue: every record after the
\* first has exactly the balance expected of it.
ExactLedger == \A n \in 2..Len(Ledger) : ExpectedAt(n) = Ledger[n].balance

\* Section 8 of analyze_transactions: starting + income - expenses = ending.
ScriptConserves ==
    /\ insights.starting_balance = ImpliedOpening(parsed_transactions[1])
    /\ insights.ending_balance = parsed_transactions[Len(parsed_transactions)].balance
    /\ insights.starting_balance + insights.total_income - insights.total_expenses
          = insights.ending_balance

\* generate_summary_statistics: net_change = total_credits - total_debits.
AuditorConserves ==
    /\ summary.opening_balance = ImpliedOpening(transactions[1])
    /\ summary.closing_balance = transactions[Len(transactions)].balance
    /\ summary.net_change = summary.total_credits - summary.total_debits
    /\ summary.opening_balance + summary.total_credits - summary.total_debits
          = summary.closing_balance

\* C14: for a non-empty record sequence on which balance verification at
\* tolerance 0 reports no issue, the reported starting balance (the first
\* record's balance - credit + debit) plus the reported total income minus the
\* reported total expenses equals the reported ending balance (the last
\* record's balance), for the totals of analyze_transactions and for those of
\* generate_summary_statistics.
C14_LedgerConservation ==
    /\ (Completed("analyze", "insights") /\ ExactLedger) => ScriptConserves
    /\ (Completed("audit", "summary") /\ ExactLedger) => AuditorConserves

=============================================================================
